---- MODULE Spec2Model ----
(***************************************************************************)
(* Model of src/src/util-net.cc (stegotorus): resolve_address_port,       *)
(* printable_address, get_evdns_base and init_evdns_base.                  *)
(*                                                                         *)
(* C strings are sequences of one-character strings; a buffer in memory   *)
(* is such a sequence followed by the terminator NUL.  A pointer is the   *)
(* name of a buffer, and a pointer into a buffer is a name and an offset. *)
(***************************************************************************)
EXTENDS Integers, Sequences, FiniteSets, TLC

\* ------------------------------------------------------------------ bounds
MaxLen == 3       \* longest address string handed to resolve_address_port
MaxCands == 2     \* longest candidate list the resolver produces
MaxInits == 2     \* number of init_evdns_base calls explored

\* --------------------------------------------------------------- constants
AF_LOCAL == 1
AF_INET == 2
AF_INET6 == 10
SizeofSockaddrIn == 16
SizeofSockaddrIn6 == 28
INET6_ADDRSTRLEN == 46
EVUTIL_EAI_SYSTEM == 0 - 11
EVUTIL_EAI_NONAME == 0 - 2
NoBase == 0       \* the null struct evdns_base pointer

NUL == "\\0"                  \* the string terminator
NULL == <<"NULL">>            \* a null char pointer (no character sequence equals it)
NoPortstr == [buf |-> "none", off |-> 0]

\* ------------------------------------------------------- text primitives
Digits == <<"0", "1", "2", "3", "4", "5", "6", "7", "8", "9",
            "a", "b", "c", "d", "e", "f">>

\* "%d" / "%u" of a non-negative integer
RECURSIVE Dec(_)
Dec(n) == IF n < 10 THEN <<Digits[n + 1]>>
          ELSE Dec(n \div 10) \o <<Digits[(n % 10) + 1]>>

\* "%x" of a non-negative integer
RECURSIVE Hex(_)
Hex(n) == IF n < 16 THEN <<Digits[n + 1]>>
          ELSE Hex(n \div 16) \o <<Digits[(n % 16) + 1]>>

\* C-string literal of module-level text, one character per element
Lit(s) ==
  CASE s = "<addr family " -> <<"<", "a", "d", "d", "r", " ", "f", "a", "m", "i", "l", "y", " ">>
    [] s = ">" -> <<">">>
    [] s = ":" -> <<":">>
    [] s = "[" -> <<"[">>
    [] s = "]:" -> <<"]", ":">>
    [] s = "." -> <<".">>

\* dotted quad of the four bytes b[off+1..off+4]
Ntop4(b, off) ==
  Dec(b[off + 1]) \o Lit(".") \o Dec(b[off + 2]) \o Lit(".")
    \o Dec(b[off + 3]) \o Lit(".") \o Dec(b[off + 4])

\* the eight 16-bit groups of a 16-byte address
Words(b) == [i \in 1..8 |-> b[2 * i - 1] * 256 + b[2 * i]]

\* length of the run of zero groups that starts at group i
RECURSIVE ZeroRun(_, _)
ZeroRun(w, i) == IF i > 8 \/ w[i] # 0 THEN 0 ELSE 1 + ZeroRun(w, i + 1)

\* start of the first longest run of at least two zero groups, 0 if none
BestBase(w) ==
  LET m == CHOOSE n \in 0..8 : (\E i \in 1..8 : ZeroRun(w, i) = n)
                               /\ \A i \in 1..8 : ZeroRun(w, i) <= n
  IN IF m < 2 THEN 0 ELSE CHOOSE i \in 1..8 : ZeroRun(w, i) = m
                                     /\ \A j \in 1..(i - 1) : ZeroRun(w, j) < m

\* groups i..8 of the presentation form of a 16-byte address
RECURSIVE Ntop6From(_, _, _, _, _)
Ntop6From(b, w, base, len, i) ==
  IF i > 8 THEN (IF base # 0 /\ base + len = 9 THEN Lit(":") ELSE <<>>)
  ELSE IF base # 0 /\ i >= base /\ i < base + len
       THEN (IF i = base THEN Lit(":") ELSE <<>>) \o Ntop6From(b, w, base, len, i + 1)
  ELSE (IF i # 1 THEN Lit(":") ELSE <<>>) \o
       (IF i = 7 /\ base = 1 /\ (len = 6 \/ (len = 7 /\ w[8] # 1) \/ (len = 5 /\ w[6] = 65535))
        THEN Ntop4(b, 12)
        ELSE Hex(w[i]) \o Ntop6From(b, w, base, len, i + 1))

\* presentation form of a 16-byte IPv6 address
Ntop6(b) ==
  LET w == Words(b)
      base == BestBase(w)
      len == IF base = 0 THEN 0 ELSE ZeroRun(w, base)
  IN Ntop6From(b, w, base, len, 1)


\* ------------------------------------------------------ memory primitives
\* index of the first NUL at or after position off of buffer contents m
RECURSIVE NulAt(_, _)
NulAt(m, off) == IF off > Len(m) THEN Len(m) + 1
                 ELSE IF m[off] = NUL THEN off ELSE NulAt(m, off + 1)

\* the C string that starts at position off of buffer contents m
CStr(m, off) == SubSeq(m, off, NulAt(m, off) - 1)

\* strchr(s, c) on buffer contents m: index of the first c before the
\* terminator, 0 when there is none
RECURSIVE strchr_from(_, _, _)
strchr_from(m, c, i) == IF i > Len(m) \/ m[i] = NUL THEN 0
                        ELSE IF m[i] = c THEN i ELSE strchr_from(m, c, i + 1)

\* strrchr: index of the last c before the terminator, 0 when there is none
RECURSIVE strrchr_from(_, _, _)
strrchr_from(m, c, i) ==
  IF i > Len(m) \/ m[i] = NUL THEN 0
  ELSE LET r == strrchr_from(m, c, i + 1)
       IN IF r # 0 THEN r ELSE IF m[i] = c THEN i ELSE 0

strrchr(m, c) == strrchr_from(m, c, 1)
strchr(m, c) == strchr_from(m, c, 1)

\* the buffer a duplicate is placed in: the caller's buffer itself (no copy)
xstrdup_alias(p) == p
\* the buffer a duplicate is placed in: a fresh allocation
xstrdup(p) == "a"

Buffers == {"address", "a", "default_port"}
Unalloc == [st |-> "unalloc", frees |-> 0]
Live == [st |-> "live", frees |-> 0]

\* a release that does nothing
free_leak(h, p) == h
\* free(p) on heap h
free(h, p) == [h EXCEPT ![p] = [st |-> "freed", frees |-> @.frees + 1]]

\* ------------------------------------------------------------- the state
VARIABLES
  pc,              \* "idle" (no call running), a position inside a call, or "aborted"
  hostLE,          \* TRUE when the host is little-endian
  \* resolve_address_port
  nodns, passive,  \* arguments
  mem,             \* contents of each string buffer
  heap,            \* per buffer: st is "unalloc", "live" or "freed", and
                   \* frees counts the free() calls of the current call
  orig,            \* the caller's string as it was at call time
  a,               \* the local 'a'
  portstr,         \* the local 'portstr': a buffer and an offset
  ai_res, ai_errno,\* the locals of the same name
  ai,              \* the local 'ai': a candidate list, <<>> when null
  aiLive,          \* TRUE while a list produced by the resolver is allocated
  aiFrees,         \* evutil_freeaddrinfo calls during the current call
  calls,           \* each evutil_getaddrinfo call of the current call: its
                   \* arguments and what the resolver answered
  log,             \* log lines of the current call
  uaf,             \* TRUE once a freed buffer has been read
  ret,             \* the value resolve_address_port returned
  \* printable_address
  sa,              \* the socket address passed in
  addrlen,         \* the length passed in
  ep,              \* the endpoint the socket address was built from
  ntopFailed,      \* TRUE when inet_ntop returned NULL
  pret,            \* the string printable_address returned
  \* the resolver context
  the_evdns_base,  \* the static of the same name
  nInits,          \* init_evdns_base calls so far
  firstStored,     \* the first non-null handle stored
  lastNew,         \* what evdns_base_new returned in the latest init call
  initRet,         \* the value init_evdns_base returned
  getRet           \* the value get_evdns_base returned

resolveVars == <<nodns, passive, mem, heap, orig, a, portstr, ai_res,
                 ai_errno, ai, aiLive, aiFrees, calls, log, uaf, ret>>
printVars == <<sa, addrlen, ep, ntopFailed, pret>>
dnsVars == <<the_evdns_base, nInits, firstStored, lastNew>>
dnsRets == <<initRet, getRet>>
vars == <<pc, hostLE, resolveVars, printVars, dnsVars, dnsRets>>

\* ---------------------------------------------------------------- inputs
Chars == {"h", ":"}
RECURSIVE StrsOfLen(_)
StrsOfLen(n) == IF n = 0 THEN {<<>>}
                ELSE {s \o <<c>> : s \in StrsOfLen(n - 1), c \in Chars}
Strs == UNION {StrsOfLen(n) : n \in 0..MaxLen}
DefaultPorts == {NULL, <<"9">>}

Cands == {"A", "B"}
RECURSIVE ListsOfLen(_)
ListsOfLen(n) == IF n = 0 THEN {<<>>}
                 ELSE {l \o <<c>> : l \in ListsOfLen(n - 1), c \in Cands}
CandLists == UNION {ListsOfLen(n) : n \in 0..MaxCands}
ResCodes == {0, EVUTIL_EAI_SYSTEM, EVUTIL_EAI_NONAME}
Errnos == {2, 11}

NoSa == [sa_family |-> 0, port |-> <<0, 0>>, addr |-> <<>>, sun_path |-> <<>>]
NoEp == [kind |-> "none", addr |-> <<>>, port |-> 0, path |-> <<>>]

\* values of the locals of a call that is not running
ResolveIdle ==
  /\ nodns' = FALSE /\ passive' = FALSE
  /\ mem' = [b \in Buffers |-> <<>>]
  /\ heap' = [b \in Buffers |-> Unalloc]
  /\ orig' = <<>> /\ a' = "none" /\ portstr' = NoPortstr
  /\ ai_res' = 0 /\ ai_errno' = 0 /\ ai' = <<>> /\ aiLive' = FALSE /\ aiFrees' = 0
  /\ calls' = <<>> /\ log' = <<>> /\ uaf' = FALSE /\ ret' = <<>>

PrintIdle ==
  /\ sa' = NoSa /\ addrlen' = 0 /\ ep' = NoEp /\ ntopFailed' = FALSE /\ pret' = NULL

DnsRetIdle == initRet' = 0 /\ getRet' = NoBase

Init ==
  /\ pc = "idle" /\ hostLE \in BOOLEAN
  /\ nodns = FALSE /\ passive = FALSE
  /\ mem = [b \in Buffers |-> <<>>]
  /\ heap = [b \in Buffers |-> Unalloc]
  /\ orig = <<>> /\ a = "none" /\ portstr = NoPortstr
  /\ ai_res = 0 /\ ai_errno = 0 /\ ai = <<>> /\ aiLive = FALSE /\ aiFrees = 0
  /\ calls = <<>> /\ log = <<>> /\ uaf = FALSE /\ ret = <<>>
  /\ sa = NoSa /\ addrlen = 0 /\ ep = NoEp /\ ntopFailed = FALSE /\ pret = NULL
  /\ the_evdns_base = NoBase /\ nInits = 0 /\ firstStored = NoBase
  /\ lastNew = NoBase /\ initRet = 0 /\ getRet = NoBase

\* ------------------------------------------------- resolve_address_port
\* reading the C string at (buf, off); a read of a buffer that is not live
\* is recorded in uaf by the caller
Read(buf, off) == CStr(mem[buf], off)
Dead(buf) == heap[buf].st # "live"

\* entry and line 92: the caller holds 'address' (and 'default_port' when
\* it is not null); 'a' is set to a duplicate of 'address'
CallResolve(address, nd, pv, dp) ==
  /\ pc = "idle"
  /\ LET dup == xstrdup("address")
         m0 == [b \in Buffers |->
                  IF b = "address" THEN address \o <<NUL>>
                  ELSE IF b = "default_port" /\ dp # NULL THEN dp \o <<NUL>>
                  ELSE <<>>]
         s0 == [b \in Buffers |->
                  IF b = "address" \/ (b = "default_port" /\ dp # NULL)
                  THEN Live ELSE Unalloc]
     IN /\ a' = dup
        /\ mem' = [m0 EXCEPT ![dup] = m0["address"]]
        /\ heap' = [s0 EXCEPT ![dup] = Live]
  /\ nodns' = nd /\ passive' = pv
  /\ orig' = address
  /\ portstr' = NoPortstr
  /\ ai_res' = 0 /\ ai_errno' = 0 /\ ai' = <<>> /\ aiLive' = FALSE /\ aiFrees' = 0
  /\ calls' = <<>> /\ log' = <<>> /\ uaf' = FALSE /\ ret' = <<>>
  /\ pc' = "split"
  /\ UNCHANGED <<hostLE, printVars, dnsVars, dnsRets>>

\* the position of the last colon instead of the first
FindLastColon(m) == strrchr(m, ":")
\* the position of the separator in 'a' (line 95)
FindColon(m) == strchr(m, ":")

\* lines 95-97: a colon was found
SplitColon ==
  /\ pc = "split"
  /\ LET cp == FindColon(mem[a])
     IN /\ cp # 0
        /\ portstr' = [buf |-> a, off |-> cp + 1]
        /\ mem' = [mem EXCEPT ![a][cp] = NUL]
  /\ uaf' = (uaf \/ Dead(a))
  /\ pc' = "resolve"
  /\ UNCHANGED <<hostLE, nodns, passive, heap, orig, a, ai_res,
                 ai_errno, ai, aiLive, aiFrees, calls, log, ret, printVars,
                 dnsVars, dnsRets>>

\* lines 98-99: no colon, a default port
SplitDefault ==
  /\ pc = "split"
  /\ FindColon(mem[a]) = 0
  /\ heap["default_port"].st = "live"
  /\ portstr' = [buf |-> "default_port", off |-> 1]
  /\ uaf' = (uaf \/ Dead(a))
  /\ pc' = "resolve"
  /\ UNCHANGED <<hostLE, nodns, passive, mem, heap, orig, a,
                 ai_res, ai_errno, ai, aiLive, aiFrees, calls, log, ret,
                 printVars, dnsVars, dnsRets>>

\* lines 100-104: no colon and no default port
SplitMissing ==
  /\ pc = "split"
  /\ FindColon(mem[a]) = 0
  /\ heap["default_port"].st # "live"
  /\ log' = Append(log, [sev |-> "debug", msg |-> "port required",
                         arg |-> Read("address", 1), detail |-> <<>>])
  /\ uaf' = (uaf \/ Dead(a) \/ Dead("address"))
  /\ heap' = free(heap, a)
  /\ ret' = <<>>
  /\ pc' = "ret_resolve"
  /\ UNCHANGED <<hostLE, nodns, passive, mem, orig, a, portstr, ai_res,
                 ai_errno, ai, aiLive, aiFrees, calls, printVars, dnsVars, dnsRets>>

\* the flags with the two arguments exchanged
HintFlagsSwapped(nd, pv) ==
  {"EVUTIL_AI_ADDRCONFIG", "EVUTIL_AI_NUMERICSERV"}
    \cup (IF nd THEN {"EVUTIL_AI_PASSIVE"} ELSE {})
    \cup (IF pv THEN {"EVUTIL_AI_NUMERICHOST"} ELSE {})
\* lines 109-113: ai_hints.ai_flags
HintFlags(nd, pv) ==
  {"EVUTIL_AI_ADDRCONFIG", "EVUTIL_AI_NUMERICSERV"}
    \cup (IF pv THEN {"EVUTIL_AI_PASSIVE"} ELSE {})
    \cup (IF nd THEN {"EVUTIL_AI_NUMERICHOST"} ELSE {})

\* lines 106-113: ai_hints
Hints(nd, pv) == [ai_family |-> "AF_UNSPEC", ai_socktype |-> "SOCK_STREAM",
                  ai_flags |-> HintFlags(nd, pv)]

\* lines 106-116: the hints are built and the resolver is called; its
\* result code, list and errno are the resolver's choice
GetAddrInfo ==
  /\ pc = "resolve"
  /\ uaf' = (uaf \/ Dead(a) \/ Dead(portstr.buf))
  /\ \E res \in ResCodes, l \in CandLists :
       /\ calls' = Append(calls, [host |-> Read(a, 1),
                                  port |-> Read(portstr.buf, portstr.off),
                                  hints |-> Hints(nodns, passive),
                                  res |-> res, list |-> l])
       /\ ai_res' = res
       /\ ai' = l
       /\ aiLive' = (l # <<>>)
       /\ ai_errno' \in (IF res = EVUTIL_EAI_SYSTEM THEN Errnos ELSE {0})
  /\ pc' = "free"
  /\ UNCHANGED <<hostLE, nodns, passive, mem, heap, orig, a,
                 portstr, aiFrees, log, ret, printVars, dnsVars, dnsRets>>

\* line 118
FreeA ==
  /\ pc = "free"
  /\ heap' = free(heap, a)
  /\ pc' = "report"
  /\ UNCHANGED <<hostLE, nodns, passive, mem, orig, a, portstr, ai_res,
                 ai_errno, ai, aiLive, aiFrees, calls, log, uaf, ret, printVars,
                 dnsVars, dnsRets>>

\* 'ai' left as it is after an error
AiAfterCheckKept(res, l) == l
\* lines 120-130: the value of 'ai' after the check of the result code
AiAfterCheck(res, l) == IF res # 0 THEN <<>> ELSE l

\* lines 120-135: the warnings, the release of a partial list, the return
Report ==
  /\ pc = "report"
  /\ log' = IF ai_res = EVUTIL_EAI_SYSTEM
            THEN Append(log, [sev |-> "warn", msg |-> "error resolving [errno]",
                              arg |-> Read("address", 1),
                              detail |-> <<ai_res, ai_errno>>])
            ELSE IF ai_res # 0
            THEN Append(log, [sev |-> "warn", msg |-> "error resolving",
                              arg |-> Read("address", 1), detail |-> <<ai_res>>])
            ELSE IF ai = <<>>
            THEN Append(log, [sev |-> "warn", msg |-> "address resolution failed",
                              arg |-> Read("address", 1), detail |-> <<>>])
            ELSE log
  /\ uaf' = (uaf \/ ((ai_res # 0 \/ ai = <<>>) /\ Dead("address")))
  /\ IF ai_res # 0 /\ ai # <<>>
     THEN aiFrees' = aiFrees + 1 /\ aiLive' = FALSE
     ELSE UNCHANGED <<aiFrees, aiLive>>
  /\ ai' = AiAfterCheck(ai_res, ai)
  /\ ret' = ai'
  /\ pc' = "ret_resolve"
  /\ UNCHANGED <<hostLE, nodns, passive, mem, heap, orig, a,
                 portstr, ai_res, ai_errno, calls, printVars, dnsVars, dnsRets>>


\* lines 103 and 135: the return; the locals and the duplicate are gone
ReturnResolve ==
  /\ pc = "ret_resolve"
  /\ ResolveIdle
  /\ pc' = "idle"
  /\ UNCHANGED <<hostLE, printVars, dnsVars, dnsRets>>

\* ---------------------------------------------------- printable_address
ApbufSize == INET6_ADDRSTRLEN + 8

\* the socket address the environment builds for an endpoint: the port is
\* stored in network byte order (most significant byte first)
MkSockaddr(e) ==
  [sa_family |-> e.family,
   port |-> IF e.kind \in {"in", "in6"} THEN <<e.port \div 256, e.port % 256>>
            ELSE <<0, 0>>,
   addr |-> e.addr,
   sun_path |-> e.path]

\* the value of a 16-bit field read by the host from two bytes of memory
LoadU16(b) == IF hostLE THEN b[1] + 256 * b[2] ELSE b[1] * 256 + b[2]

\* a port used as it is stored, without conversion
ntohs_missing(x) == x
\* ntohs (lines 150, 160)
ntohs(x) == IF hostLE THEN (x % 256) * 256 + (x \div 256) ELSE x

\* inet_ntop(af, src, dst, cnt): the text, or NULL when the family is not
\* supported, the text does not fit in cnt bytes, or the primitive fails
\* (ok = FALSE)
inet_ntop(af, src, cnt, ok) ==
  LET t == IF af = AF_INET THEN Ntop4(src, 0)
           ELSE IF af = AF_INET6 THEN Ntop6(src)
           ELSE NULL
  IN IF ~ok \/ t = NULL \/ Len(t) >= cnt THEN NULL ELSE t

\* the IPv6 assertion made against the IPv4 structure size
LengthAssertedSameSize(fam, len) ==
  IF fam \in {AF_INET, AF_INET6} THEN len >= SizeofSockaddrIn ELSE TRUE
\* the log_assert of lines 147 and 157: TRUE when it passes
LengthAsserted(fam, len) ==
  IF fam = AF_INET THEN len >= SizeofSockaddrIn
  ELSE IF fam = AF_INET6 THEN len >= SizeofSockaddrIn6
  ELSE TRUE

\* the fallback with the family in hexadecimal
FallbackTextHex(fam) == Lit("<addr family ") \o Hex(fam) \o Lit(">")
\* line 172: "<addr family %d>"
FallbackText(fam) == Lit("<addr family ") \o Dec(fam) \o Lit(">")

\* line 150: "%s:%d"
FormatIn(abuf, port) == abuf \o Lit(":") \o Dec(port)
\* line 160: "[%s]:%d"
FormatIn6(abuf, port) == Lit("[") \o abuf \o Lit("]:") \o Dec(port)

\* lines 138-174; ok is the outcome of the inet_ntop primitive
PrintableAddress(e, len, ok) ==
  /\ pc = "idle"
  /\ LET addr == MkSockaddr(e)
         fam == addr.sa_family
         abuf == IF fam \in {AF_INET, AF_INET6}
                 THEN inet_ntop(AF_INET, addr.addr, INET6_ADDRSTRLEN, ok)
                 ELSE NULL
         text == IF fam = AF_INET /\ abuf # NULL
                   THEN FormatIn(abuf, ntohs(LoadU16(addr.port)))
                 ELSE IF fam = AF_INET6 /\ abuf # NULL
                   THEN FormatIn6(abuf, ntohs(LoadU16(addr.port)))
                 ELSE IF fam = AF_LOCAL THEN addr.sun_path
                 ELSE FallbackText(fam)
         fits == fam = AF_LOCAL \/ Len(text) < ApbufSize
     IN /\ sa' = addr /\ addrlen' = len /\ ep' = e
        /\ IF LengthAsserted(fam, len) /\ fits
           THEN /\ ntopFailed' = (fam \in {AF_INET, AF_INET6} /\ abuf = NULL)
                /\ pret' = text
                /\ pc' = "ret_printable"
           ELSE /\ ntopFailed' = FALSE
                /\ pret' = NULL
                /\ pc' = "aborted"
  /\ UNCHANGED <<hostLE, resolveVars, dnsVars, dnsRets>>

\* lines 151, 161, 166 and 173: the return of the string
ReturnPrintable ==
  /\ pc = "ret_printable"
  /\ PrintIdle
  /\ pc' = "idle"
  /\ UNCHANGED <<hostLE, resolveVars, dnsVars, dnsRets>>

Ports == {0, 80, 8080, 65535}
In4Addrs == {<<1, 2, 3, 4>>, <<0, 0, 0, 0>>, <<255, 255, 255, 255>>}
In6Addrs ==
  { <<0, 0, 0, 0, 0, 0, 0, 0, 0, 0, 0, 0, 0, 0, 0, 1>>,               \* ::1
    <<0, 0, 0, 0, 0, 0, 0, 0, 0, 0, 0, 0, 0, 0, 0, 0>>,               \* ::
    <<32, 1, 13, 184, 0, 0, 0, 0, 0, 0, 0, 0, 0, 0, 0, 1>>,           \* 2001:db8::1
    <<0, 1, 0, 2, 0, 3, 0, 4, 0, 5, 0, 6, 0, 7, 0, 8>>,               \* 1:2:3:4:5:6:7:8
    <<0, 0, 0, 0, 0, 0, 0, 0, 0, 0, 255, 255, 1, 2, 3, 4>>,           \* ::ffff:1.2.3.4
    <<254, 128, 0, 0, 0, 0, 0, 0, 0, 0, 0, 0, 0, 0, 0, 0>>,           \* fe80::
    <<1, 2, 3, 4, 0, 0, 0, 0, 0, 0, 0, 0, 0, 0, 0, 0>> }              \* 102:304::
Paths == {<<>>, <<"/", "s">>}
OtherFamilies == {0, 99, 65535}
AddrLens == {2, SizeofSockaddrIn, SizeofSockaddrIn6, 110}

Endpoints ==
  {[kind |-> "in", family |-> AF_INET, addr |-> x, port |-> p, path |-> <<>>] :
     x \in In4Addrs, p \in Ports}
  \cup
  {[kind |-> "in6", family |-> AF_INET6, addr |-> x, port |-> p, path |-> <<>>] :
     x \in In6Addrs, p \in Ports}
  \cup
  {[kind |-> "un", family |-> AF_LOCAL, addr |-> <<>>, port |-> 0, path |-> x] :
     x \in Paths}
  \cup
  {[kind |-> "other", family |-> f, addr |-> <<>>, port |-> 0, path |-> <<>>] :
     f \in OtherFamilies}

\* ------------------------------------------------- the resolver context
\* the handle kept when one is already stored
init_store_once(old, new) == IF old = NoBase THEN new ELSE old
\* line 187: the value assigned to the_evdns_base
init_store(old, new) == new

\* lines 184-189; ok is the outcome of evdns_base_new, which returns a
\* handle never returned before, or null
InitEvdnsBase(ok) ==
  /\ pc = "idle"
  /\ nInits < MaxInits
  /\ LET new == IF ok THEN nInits + 1 ELSE NoBase
         stored == init_store(the_evdns_base, new)
     IN /\ the_evdns_base' = stored
        /\ lastNew' = new
        /\ firstStored' = IF firstStored = NoBase THEN stored ELSE firstStored
        /\ initRet' = IF stored = NoBase THEN 0 - 1 ELSE 0
  /\ nInits' = nInits + 1
  /\ pc' = "ret_init"
  /\ UNCHANGED <<hostLE, resolveVars, printVars, getRet>>

\* lines 178-182
GetEvdnsBase ==
  /\ pc = "idle"
  /\ getRet' = the_evdns_base
  /\ pc' = "ret_get"
  /\ UNCHANGED <<hostLE, resolveVars, printVars, dnsVars, initRet>>

\* lines 181 and 188: the caller has the returned value
ReturnDns ==
  /\ pc \in {"ret_init", "ret_get"}
  /\ DnsRetIdle
  /\ pc' = "idle"
  /\ UNCHANGED <<hostLE, resolveVars, printVars, dnsVars>>

\* ------------------------------------------------------ the specification
Next ==
  \/ \E address \in Strs, nd \in BOOLEAN, pv \in BOOLEAN, dp \in DefaultPorts :
       CallResolve(address, nd, pv, dp)
  \/ SplitColon
  \/ SplitDefault
  \/ SplitMissing
  \/ GetAddrInfo
  \/ FreeA
  \/ Report
  \/ ReturnResolve
  \/ \E e \in Endpoints, len \in AddrLens, ok \in BOOLEAN : PrintableAddress(e, len, ok)
  \/ ReturnPrintable
  \/ \E ok \in BOOLEAN : InitEvdnsBase(ok)
  \/ GetEvdnsBase
  \/ ReturnDns

Spec == Init /\ [][Next]_vars


\* ------------------------------------------------------------ properties
\* position of the first colon of a string, 0 when it has none
FirstColon(str) ==
  IF \E i \in 1..Len(str) : str[i] = ":"
  THEN CHOOSE i \in 1..Len(str) : str[i] = ":" /\ \A j \in 1..(i - 1) : str[j] # ":"
  ELSE 0
HasDefault == heap["default_port"].st # "unalloc"
DefaultPort == SubSeq(mem["default_port"], 1, Len(mem["default_port"]) - 1)
InCall == pc \in {"split", "resolve", "free", "report", "ret_resolve"}

\* C1: an IPv6 socket address of sufficient length whose conversion
\* succeeds is returned as [TEXT]:PORT, TEXT being the IPv6 presentation
\* form of the 16 address bytes and PORT the port in host byte order.
C1_Ipv6Text ==
  (pc = "ret_printable" /\ ep.kind = "in6" /\ addrlen >= SizeofSockaddrIn6
     /\ ~ntopFailed)
  => pret = <<"[">> \o Ntop6(ep.addr) \o <<"]", ":">> \o Dec(ep.port)

\* C2: an IPv4 socket address of sufficient length whose conversion
\* succeeds is returned as TEXT:PORT, TEXT being the dotted quad of the 4
\* address bytes and PORT the decimal port in host byte order; 1.2.3.4
\* port 80 gives "1.2.3.4:80".
C2_Ipv4Text ==
  (pc = "ret_printable" /\ ep.kind = "in" /\ addrlen >= SizeofSockaddrIn
     /\ ~ntopFailed)
  => /\ pret = Dec(ep.addr[1]) \o <<".">> \o Dec(ep.addr[2]) \o <<".">>
                 \o Dec(ep.addr[3]) \o <<".">> \o Dec(ep.addr[4])
                 \o <<":">> \o Dec(ep.port)
     /\ (ep.addr = <<1, 2, 3, 4>> /\ ep.port = 80)
          => pret = <<"1", ".", "2", ".", "3", ".", "4", ":", "8", "0">>

C2_Witness ==
  /\ pc = "ret_printable" /\ ep.kind = "in" /\ addrlen >= SizeofSockaddrIn
  /\ ~ntopFailed /\ hostLE
  /\ ep.addr = <<1, 2, 3, 4>> /\ ep.port = 8080
  /\ pret = <<"1", ".", "2", ".", "3", ".", "4", ":", "8", "0", "8", "0">>

\* C3: with no colon in the input and no default port the call returns
\* null, the resolver is never called, no list exists, and the only effects
\* are one debug "port required" log line and the release of the duplicate.
C3_MissingPort ==
  (pc = "ret_resolve" /\ FirstColon(orig) = 0 /\ ~HasDefault)
  => /\ ret = <<>> /\ calls = <<>> /\ ~aiLive /\ aiFrees = 0
     /\ log = <<[sev |-> "debug", msg |-> "port required", arg |-> orig,
                 detail |-> <<>>]>>
     /\ heap["a"] = [st |-> "freed", frees |-> 1]
     /\ heap["address"] = Live /\ mem["address"] = orig \o <<NUL>>

C3_Witness ==
  /\ pc = "ret_resolve" /\ orig = <<"h", "h">> /\ ~HasDefault
  /\ Len(log) = 1 /\ heap["a"].frees = 1 /\ calls = <<>>

\* C4: the host and port handed to the resolver: with a colon in the input,
\* the text before the first colon and everything after it, the default
\* port being ignored; with no colon and a default port, the whole input
\* and the default port.
C4_HostPort ==
  (InCall /\ calls # <<>>)
  => /\ Len(calls) = 1
     /\ LET k == FirstColon(orig)
        IN IF k # 0
           THEN /\ calls[1].host = SubSeq(orig, 1, k - 1)
                /\ calls[1].port = SubSeq(orig, k + 1, Len(orig))
           ELSE /\ HasDefault
                /\ calls[1].host = orig
                /\ calls[1].port = DefaultPort

C4_Witness ==
  /\ pc = "free" /\ orig = <<"h", ":", ":">> /\ HasDefault
  /\ calls[1].host = <<"h">> /\ calls[1].port = <<":">>

\* C5: once the resolver has been called, the call returns a non-null list
\* exactly when the result code is zero and the resolver's list is not
\* empty, and then it is the resolver's list; with a non-zero code a partial
\* list is released exactly once and not returned; with a zero code and an
\* empty list null is returned.
C5_Result ==
  (pc = "ret_resolve" /\ calls # <<>>)
  => LET r == calls[1]
     IN /\ (ret # <<>>) <=> (r.res = 0 /\ r.list # <<>>)
        /\ ret # <<>> => (ret = r.list /\ aiLive /\ aiFrees = 0)
        /\ (r.res # 0 /\ r.list # <<>>) => (ret = <<>> /\ aiFrees = 1 /\ ~aiLive)
        /\ r.list = <<>> => (ret = <<>> /\ aiFrees = 0)

C5_Witness ==
  /\ pc = "ret_resolve" /\ calls # <<>>
  /\ calls[1].res = EVUTIL_EAI_NONAME /\ calls[1].list = <<"A", "B">>
  /\ ret = <<>> /\ aiFrees = 1

\* C6 as stated: get_evdns_base returns null before the first
\* init_evdns_base call, and once a handle has been stored every later
\* get_evdns_base call returns that handle, whatever calls come between.
C6_WrittenOnce ==
  pc = "ret_get"
  => /\ nInits = 0 => getRet = NoBase
     /\ firstStored # NoBase => getRet = firstStored

\* C6 amended: get_evdns_base returns null before the first init_evdns_base
\* call and afterwards what evdns_base_new returned in the latest
\* init_evdns_base call (null when that call failed); no other call changes
\* the stored handle.
C6_LatestInit ==
  /\ the_evdns_base = lastNew
  /\ nInits = 0 => the_evdns_base = NoBase
  /\ pc = "ret_get" => getRet = lastNew

C6_Witness ==
  /\ pc = "ret_get" /\ nInits = 2 /\ firstStored = 1 /\ getRet = 2

\* C7 as stated: printable_address returns a string for every socket
\* address and every length, and never aborts.
C7_NeverAborts == pc # "aborted"

\* C7 amended: printable_address returns a string for every socket address
\* and every length, except that an IPv4 or IPv6 address whose length is
\* shorter than the structure of its family aborts on the length assertion.
ShortLength ==
  \/ ep.kind = "in" /\ addrlen < SizeofSockaddrIn
  \/ ep.kind = "in6" /\ addrlen < SizeofSockaddrIn6
C7_AbortsOnlyOnShortLength ==
  /\ pc = "aborted" => ShortLength
  /\ pc = "ret_printable" => (~ShortLength /\ pret # NULL)

C7_Witness ==
  /\ pc = "ret_printable" /\ ep.kind = "in6" /\ addrlen = SizeofSockaddrIn6
  /\ pret # NULL

\* C8: an address of a family other than IPv4, IPv6 and local, and an IPv4
\* or IPv6 address whose conversion to text fails, is returned as
\* <addr family N>, N the family in decimal, whatever the length in the
\* first case; family 99 gives "<addr family 99>".
FallbackCase == ep.kind = "other" \/ ntopFailed
C8_Fallback ==
  /\ (pc \in {"ret_printable", "aborted"} /\ ep.kind = "other")
       => pc = "ret_printable"
  /\ (pc = "ret_printable" /\ FallbackCase)
       => /\ pret = <<"<", "a", "d", "d", "r", " ", "f", "a", "m", "i", "l", "y", " ">>
                      \o Dec(ep.family) \o <<">">>
          /\ ep.family = 99 => SubSeq(pret, 14, Len(pret)) = <<"9", "9", ">">>

C8_Witness ==
  /\ pc = "ret_printable" /\ ep.kind = "other" /\ ep.family = 99 /\ addrlen = 2
  /\ Len(pret) = 16

\* C9: the hints handed to the resolver have family unspecified, socket
\* type stream, and flags that always hold address-config and
\* numeric-service, hold passive exactly when passive is set, numeric-host
\* exactly when nodns is set, and nothing else.
C9_Hints ==
  (InCall /\ calls # <<>>)
  => LET h == calls[1].hints
     IN /\ h.ai_family = "AF_UNSPEC" /\ h.ai_socktype = "SOCK_STREAM"
        /\ "EVUTIL_AI_ADDRCONFIG" \in h.ai_flags
        /\ "EVUTIL_AI_NUMERICSERV" \in h.ai_flags
        /\ ("EVUTIL_AI_PASSIVE" \in h.ai_flags) <=> passive
        /\ ("EVUTIL_AI_NUMERICHOST" \in h.ai_flags) <=> nodns
        /\ h.ai_flags \subseteq {"EVUTIL_AI_ADDRCONFIG", "EVUTIL_AI_NUMERICSERV",
                                 "EVUTIL_AI_PASSIVE", "EVUTIL_AI_NUMERICHOST"}

C9_Witness ==
  /\ pc = "free" /\ passive /\ ~nodns
  /\ calls[1].hints.ai_flags = {"EVUTIL_AI_ADDRCONFIG", "EVUTIL_AI_NUMERICSERV",
                                "EVUTIL_AI_PASSIVE"}

\* C10: on every path the duplicate of the input is released exactly once
\* before the return, nothing is read from it after the release (the
\* resolver is called before it and the log lines take the caller's
\* string), and the caller's string is never modified.
C10_Duplicate ==
  InCall
  => /\ ~uaf
     /\ heap["address"] = Live /\ mem["address"] = orig \o <<NUL>>
     /\ a = "a"
     /\ heap["a"].frees = (IF pc \in {"report", "ret_resolve"} THEN 1 ELSE 0)
     /\ heap["a"].st = (IF pc \in {"report", "ret_resolve"} THEN "freed" ELSE "live")
     /\ pc = "report" => Len(calls) = 1
     /\ \A i \in 1..Len(log) : log[i].arg = orig

C10_Witness ==
  /\ pc = "ret_resolve" /\ orig = <<"h", ":", "h">> /\ Len(calls) = 1
  /\ Len(log) = 1 /\ heap["a"].frees = 1 /\ mem["a"] = <<"h", NUL, "h", NUL>>

====
